---- MODULE Spec2Model ----
(***************************************************************************)
(* The Document-Tree Exporter (firestore2json): getAll / getBatch page     *)
(* through a root collection, exportSubcollectionsAsSeparateFiles walks    *)
(* the nested collections of every document, writeRecord appends one       *)
(* record to a relation and cleanUp finalises the relations.               *)
(*                                                                         *)
(* Strings are sequences of one-character tokens, so that concatenation    *)
(* and the sanitising regular expression are computed, not assumed.        *)
(* The event loop is modelled at its await points: every action is one     *)
(* I/O completion together with the synchronous code that follows it up    *)
(* to the next await.                                                      *)
(*                                                                         *)
(* The Function Migrator (migrate-functions.js, class FunctionMigrator):   *)
(* parseCloudFunctions scans a source text with the pattern registry,      *)
(* extractFunctionBody cuts a brace-delimited body out of it,              *)
(* createEdgeFunctions writes one unit per record and migrate ties them    *)
(* together and writes the report.  A source text is a sequence of lexical *)
(* tokens, each with its width in characters; the code is synchronous, so  *)
(* an action is one call or one iteration of the loop over the records.    *)
(*                                                                         *)
(* The API rewriter (convertFirebaseToSupabase) is a chain of global       *)
(* replacements, computed rule by rule over the tokens of a body.  A       *)
(* generated handler is the serve callback of its template: an action is   *)
(* one request answered by it, with the statements it ran on the way.      *)
(***************************************************************************)
EXTENDS Integers, Sequences, FiniteSets, Bags, TLC

VARIABLES
    store,                  \* the Firestore content: [nRoot, nSub, nDocs, fields]
    batchSize,              \* argument of main
    limit,                  \* argument of main
    includeSubcollections,  \* argument of main
    maxDepth,               \* argument of main
    subcollectionLimit,     \* argument of main
    processDocument,        \* the transform hook loaded at start-up ("none" when absent)
    pc,                     \* position of the awaited chain main/getAll/getBatch
    offset,                 \* getAll's offset parameter
    rootFetch,              \* the root fetch last issued by getBatch
    snapshot,               \* the snapshot that fetch returned, and the loop index _i
    walk,                   \* the awaited depth-0 walk of the current root document
    pending,                \* bag of un-awaited walks whose I/O is in flight
    recordCounters,         \* relation name -> number of records written
    written,                \* bag of the records appended to the relations
    summary,                \* one entry per cleanUp call: the counts then emitted
    listed,                 \* documents on which listCollections has been called
    fetched,                \* nested collections on which get has been called
    raised,                 \* the I/O calls that raised: <<ref, c>>, c = 0 for a listing, ref = <<>> for the root fetch
    faults,                 \* number of I/O errors so far
    errorLog,               \* number of console.error calls
    lateWrite,              \* a record has been written after cleanUp
    \* the Function Migrator
    sourceDir,              \* options.source ("" when not given)
    firebaseProject,        \* options.firebaseProject ("" when not given)
    sourceFiles,            \* the files under the source directory: sequence of [name, content]
    deployed,               \* the function names `firebase functions:list` prints
    migrationReport,        \* this.migrationReport
    mpc,                    \* position of the migrator: idle, loop, done, threw
    caller,                 \* who entered createEdgeFunctions: migrate or a direct call
    functions,              \* the list createEdgeFunctions iterates over
    idx,                    \* number of records the loop has taken
    migrationSummary,       \* createEdgeFunctions' migrationSummary
    outputTree,             \* the output directory: [dirs, files], a file mapped to its last writer
    runs,                   \* number of calls made on this migrator
    skipped,                \* names the current call skipped for an unsupported type
    thrown,                 \* the exceptions the loop body raised in the current call: [rec, message]
    reportWrites,           \* number of times the current call wrote MIGRATION_REPORT.md
    fsFaults,               \* number of file-system errors so far
    \* direct calls of the scanner's methods
    content,                \* argument: the source text
    startIndex,             \* argument of extractFunctionBody
    called,                 \* the method that has been called ("none" before the call)
    body,                   \* what extractFunctionBody returned
    parsed,                 \* what parseCloudFunctions returned
    \* a direct call of the rewriter
    code,                   \* argument of convertFirebaseToSupabase: [defined, text]
    converted,              \* how the call ended and what it returned: [state, text]
    \* a request to a generated handler
    template,               \* the trigger kind whose template rendered the handler
    env,                    \* the shared secret in the handler's environment: [set, value]
    request,                \* the request: [method, authorization, user, fails]
    response,               \* the response: [status, body], NoResponse before it
    steps                   \* the statements the handler ran, in order

exporterVars ==
    <<store, batchSize, limit, includeSubcollections, maxDepth,
      subcollectionLimit, processDocument, pc, offset, rootFetch, snapshot,
      walk, pending, recordCounters, written, summary, listed, fetched,
      raised, faults, errorLog, lateWrite>>

migratorVars ==
    <<sourceDir, firebaseProject, sourceFiles, deployed, migrationReport, mpc,
      caller, functions, idx, migrationSummary, outputTree, runs, skipped,
      thrown, reportWrites, fsFaults>>

scannerVars == <<content, startIndex, called, body, parsed>>

generatorVars == <<code, converted, template, env, request, response, steps>>

vars == <<exporterVars, migratorVars, scannerVars, generatorVars>>

\* The migrator before any call, with nothing to migrate.
MigratorIdle ==
    /\ sourceDir = "" /\ firebaseProject = ""
    /\ sourceFiles = <<>> /\ deployed = <<>>
    /\ migrationReport = [total |-> 0, migrated |-> 0, failed |-> 0,
                          warnings |-> <<>>, errors |-> <<>>]
    /\ mpc = "idle" /\ caller = "none"
    /\ functions = <<>> /\ idx = 0 /\ migrationSummary = <<>>
    /\ outputTree = [dirs |-> {}, files |-> <<>>]
    /\ runs = 0 /\ skipped = <<>> /\ thrown = <<>>
    /\ reportWrites = 0 /\ fsFaults = 0

NoResponse == [status |-> 0, body |-> <<>>]

\* No direct call of the rewriter.
RewriterIdle ==
    /\ code = [defined |-> TRUE, text |-> <<>>]
    /\ converted = [state |-> "none", text |-> <<>>]

\* No request to a generated handler.
HandlerIdle ==
    /\ template = "https"
    /\ env = [set |-> FALSE, value |-> ""]
    /\ request = [method |-> "OPTIONS", authorization |-> [present |-> FALSE, value |-> <<>>],
                  user |-> FALSE, fails |-> "none"]
    /\ response = NoResponse
    /\ steps = <<>>

\* No direct call of a scanner method, of the rewriter or of a handler.
ScannerIdle ==
    /\ content = <<>> /\ startIndex = 0
    /\ called = "none" /\ body = <<>> /\ parsed = <<>>
    /\ RewriterIdle /\ HandlerIdle

----------------------------------------------------------------------------
(* Bounds of the model *)

MaxRoot == 2        \* root documents in the collection
MaxDocs == 2        \* documents in one nested collection
MaxLimit == 3       \* largest limit argument
MaxFaults == 1      \* I/O errors injected in one run

BatchSizes == {1, 2}
MaxDepths == {0, 1, 2}
SubcollectionLimits == {1, 2}
Hooks == {"none", "emit"}

\* Counters are IEEE doubles in the program; the model saturates them at a
\* value above every count a property compares.
CounterCap == MaxRoot * MaxDocs + MaxLimit

Min(a, b) == IF a < b THEN a ELSE b

SatAdd(a, b) == Min(a + b, CounterCap)

----------------------------------------------------------------------------
(* Strings and names *)

Root == <<"r">>                         \* the root collection name (args[0])

SubNames == << <<"a">>, <<"b", "-">> >>  \* ids of the nested collections, in listing order

Ids == <<"1", "2", "3", "4">>           \* document ids, by position in a collection

AlnumChars == {"a", "b", "r", "v", "1", "2", "3", "4"}

Undefined == <<"u", "n", "d", "e", "f", "i", "n", "e", "d">>

IdentityFields == <<"firestore_id", "firestoreid", "original_id", "originalid">>

NoWalk == [at |-> "none"]

NoSnapshot == [at |-> -1, docs |-> <<>>, i |-> 0]

----------------------------------------------------------------------------
(* The document store *)

\* A document reference: <<i>> is root document i, and ref \o <<c, j>> is
\* document j of nested collection c of the document ref.
DepthOf(ref) == (Len(ref) - 1) \div 2

DocId(ref) == <<Ids[ref[Len(ref)]]>>

\* fsdoc.data(): every document carries the field map chosen for the store.
Data(ref) == store.fields

\* docRef.listCollections(): the nested collections of a document, by index.
ListCollections(ref) == [c \in 1..store.nSub |-> c]

\* collection.limit(n).get(): the first n documents of nested collection c.
GetSub(ref, c, n) == [j \in 1..Min(n, store.nDocs) |-> ref \o <<c, j>>]

\* db.collection(name).limit(n).get(): the query carries no offset.
RootQuery(n, off) == [j \in 1..Min(n, store.nRoot) |-> <<j>>]

----------------------------------------------------------------------------
(* Records *)

Has(d, f) == f \in DOMAIN d

\* The JavaScript test !d.f : the field is absent or holds the empty string.
Falsy(d, f) == ~Has(d, f) \/ d[f] = <<>>

SetField(d, f, v) == [x \in DOMAIN d \cup {f} |-> IF x = f THEN v ELSE d[x]]

\* Variant whose first test is inverted, so that a free firestore_id is skipped.
AssignRootIdentitySkipFirst(doc, id) ==
    IF ~Falsy(doc, "firestore_id") THEN SetField(doc, "firestore_id", id)
    ELSE IF Falsy(doc, "firestoreid") THEN SetField(doc, "firestoreid", id)
    ELSE doc

\* getBatch, the if / else-if chain over the four identity field names.
AssignRootIdentity(doc, id) ==
    IF Falsy(doc, "firestore_id") THEN SetField(doc, "firestore_id", id)
    ELSE IF Falsy(doc, "firestoreid") THEN SetField(doc, "firestoreid", id)
    ELSE IF Falsy(doc, "original_id") THEN SetField(doc, "original_id", id)
    ELSE IF Falsy(doc, "originalid") THEN SetField(doc, "originalid", id)
    ELSE doc

\* exportSubcollectionsAsSeparateFiles, "Add document ID".
AssignNestedIdentity(docData, id) ==
    IF Falsy(docData, "firestore_id") THEN SetField(docData, "firestore_id", id)
    ELSE docData

\* subcollectionName.replace(/[^a-zA-Z0-9]/g, '_')
Sanitize(s) == [k \in DOMAIN s |-> IF s[k] \in AlnumChars THEN s[k] ELSE "_"]

\* tablePrefix / tableName of a nested collection.
TableName(parentCollectionName, currentDepth, subcollectionName) ==
    IF currentDepth = 0
    THEN parentCollectionName \o <<"_">> \o subcollectionName
    ELSE parentCollectionName \o <<"_">> \o Sanitize(subcollectionName)

\* String concatenation with a possibly undefined left operand.
Str(d, f) == IF Has(d, f) THEN d[f] ELSE Undefined

CollectionPath(docData, parentCollectionName, parentDocId, currentDepth, subcollectionName) ==
    IF currentDepth = 0
    THEN parentCollectionName \o <<"/">> \o parentDocId \o <<"/">> \o subcollectionName
    ELSE Str(docData, "collection_path") \o <<"/">> \o subcollectionName

\* The record written for document ref of nested collection c in walk t.
NestedRecord(t, c, ref) ==
    LET d1 == AssignNestedIdentity(Data(ref), DocId(ref))
        d2 == SetField(d1, "parent_collection", t.parentCollectionName)
        d3 == SetField(d2, "parent_document_id", t.parentDocId)
    IN  SetField(d3, "collection_path",
                 CollectionPath(d3, t.parentCollectionName, t.parentDocId,
                                t.currentDepth, SubNames[c]))

----------------------------------------------------------------------------
(* The record-store writer (utils: writeRecord, cleanUp) *)

Count(c, name) == IF name \in DOMAIN c THEN c[name] ELSE 0

SetCount(c, name, n) == [x \in DOMAIN c \cup {name} |-> IF x = name THEN n ELSE c[x]]

\* The machine state as one record, so that the synchronous code between two
\* awaits is a composition of functions on it.
Cur ==
    [pc |-> pc, offset |-> offset, rootFetch |-> rootFetch, snapshot |-> snapshot,
     walk |-> walk, pending |-> pending, recordCounters |-> recordCounters,
     written |-> written, summary |-> summary, listed |-> listed,
     fetched |-> fetched, raised |-> raised, faults |-> faults,
     errorLog |-> errorLog, lateWrite |-> lateWrite]

Assign(m) ==
    /\ pc' = m.pc
    /\ offset' = m.offset
    /\ rootFetch' = m.rootFetch
    /\ snapshot' = m.snapshot
    /\ walk' = m.walk
    /\ pending' = m.pending
    /\ recordCounters' = m.recordCounters
    /\ written' = m.written
    /\ summary' = m.summary
    /\ listed' = m.listed
    /\ fetched' = m.fetched
    /\ raised' = m.raised
    /\ faults' = m.faults
    /\ errorLog' = m.errorLog
    /\ lateWrite' = m.lateWrite
    /\ UNCHANGED <<store, batchSize, limit, includeSubcollections, maxDepth,
                   subcollectionLimit, processDocument>>
    /\ UNCHANGED <<migratorVars, scannerVars, generatorVars>>

\* writeRecord(name, doc, recordCounters): append doc to relation name and
\* count it.  src is the document the record was made from.
WriteRecord(m, name, src, rec) ==
    LET e == [table |-> name, src |-> src, rec |-> rec]
    IN  [m EXCEPT
            !.written = IF CopiesIn(e, @) >= CounterCap THEN @ ELSE @ (+) SetToBag({e}),
            !.recordCounters = SetCount(@, name, SatAdd(Count(@, name), 1)),
            !.lateWrite = @ \/ Len(m.summary) > 0]

\* getAll's else branch: cleanUp(recordCounters), then one line per relation.
CleanUp(m) == [m EXCEPT !.pc = "done", !.summary = Append(@, m.recordCounters)]

----------------------------------------------------------------------------
(* exportSubcollectionsAsSeparateFiles *)

\* Off-by-one variant of the depth guard.
ReachedMaxDepthStrict(currentDepth) == currentDepth > maxDepth

\* "Prevent infinite recursion by limiting depth"
ReachedMaxDepth(currentDepth) == currentDepth >= maxDepth

\* The guard of the recursive call.
Recurse(currentDepth) == currentDepth + 1 < maxDepth

\* A walk suspended at its first await, docRef.listCollections().
NewWalk(docRef, parentCollectionName, parentDocId, currentDepth) ==
    [at |-> "listCollections", docRef |-> docRef,
     parentCollectionName |-> parentCollectionName,
     parentDocId |-> parentDocId, currentDepth |-> currentDepth, i |-> 0]

\* The un-awaited recursive call: the callee runs up to its first await and
\* is left in flight.
Spawn(m, docRef, parentCollectionName, parentDocId, currentDepth) ==
    IF ReachedMaxDepth(currentDepth) THEN m
    ELSE [m EXCEPT
            !.pending = @ (+) SetToBag({NewWalk(docRef, parentCollectionName,
                                                  parentDocId, currentDepth)}),
            !.listed = @ \cup {docRef}]

\* The for loop over snapshot.docs of nested collection c, from document j on.
RECURSIVE ProcessSubDocs(_, _, _, _, _)
ProcessSubDocs(m, t, c, docs, j) ==
    IF j > Len(docs) THEN m
    ELSE LET doc == docs[j]
             tableName == TableName(t.parentCollectionName, t.currentDepth, SubNames[c])
             m1 == WriteRecord(m, tableName, doc, NestedRecord(t, c, doc))
             m2 == IF Recurse(t.currentDepth)
                   THEN Spawn(m1, doc, tableName, DocId(doc), t.currentDepth + 1)
                   ELSE m1
         IN  ProcessSubDocs(m2, t, c, docs, j + 1)

\* collection.limit(subcollectionLimit).get() is issued for collection i.
IssueGet(m, t, i) ==
    [m |-> [m EXCEPT !.fetched = @ \cup {<<t.docRef, i>>}],
     next |-> [t EXCEPT !.at = "get", !.i = i]]

Finished(m) == [m |-> m, next |-> NoWalk]

\* listCollections() returns: leave when there is nothing, else enter the loop.
ListReturns(m, t) ==
    LET collections == ListCollections(t.docRef)
    IN  IF Len(collections) = 0 THEN Finished(m) ELSE IssueGet(m, t, 1)

\* get() returns for collection t.i: write its documents, go to the next one.
GetReturns(m, t) ==
    LET collections == ListCollections(t.docRef)
        docs == GetSub(t.docRef, collections[t.i], subcollectionLimit)
        m1 == ProcessSubDocs(m, t, collections[t.i], docs, 1)
    IN  IF t.i < Len(collections) THEN IssueGet(m1, t, t.i + 1) ELSE Finished(m1)

\* Either await raises: the one catch block around the whole loop logs the
\* error and the walk returns.
Catch(m, t) ==
    Finished([m EXCEPT !.raised = @ \cup {<<t.docRef, t.i>>},
                       !.faults = @ + 1,
                       !.errorLog = @ + 1])

----------------------------------------------------------------------------
(* getAll / getBatch *)

\* Variant that does not clamp the batch to what the limit leaves.
FetchSizeUnclamped(n) == batchSize

\* batchSize = Math.min(batchSize, limit - recordCounters[collectionName])
FetchSize(n) == IF limit > 0 THEN Min(batchSize, limit - n) ELSE batchSize

\* getBatch up to its await, and getAll's handling of an empty result.
GetAll(m, off) ==
    LET counters == SetCount(m.recordCounters, Root, Count(m.recordCounters, Root))
        m0 == [m EXCEPT !.offset = off, !.recordCounters = counters]
        n == counters[Root]
    IN  IF limit > 0 /\ n >= limit
        THEN CleanUp(m0)
        ELSE [m0 EXCEPT
                !.pc = "get",
                !.rootFetch = [offset |-> off, size |-> FetchSize(n), count |-> n]]

\* The transform hook.  "emit" stands for a hook that writes the document to
\* the relation itself through the writeRecord it is handed.
ProcessDocument(m, fsdoc, doc) ==
    IF processDocument = "emit" THEN WriteRecord(m, Root, fsdoc, doc) ELSE m

\* Label 3 of the loop body: hook, writeRecord, data.push.
WriteRoot(m, fsdoc) ==
    LET doc == AssignRootIdentity(Data(fsdoc), DocId(fsdoc))
    IN  WriteRecord(ProcessDocument(m, fsdoc, doc), Root, fsdoc, doc)

\* The for loop over snapshot.docs from index k on, up to the next await or
\* through the end of the batch and getAll's recursion.
RECURSIVE Loop(_, _)
Loop(m, k) ==
    LET docs == m.snapshot.docs
    IN  IF k > Len(docs)
        THEN IF Len(docs) > 0
             THEN GetAll(m, SatAdd(m.offset, Len(docs)))
             ELSE CleanUp(m)
        ELSE IF includeSubcollections /\ ~ReachedMaxDepth(0)
             THEN [m EXCEPT
                     !.pc = "walk",
                     !.snapshot.i = k,
                     !.walk = NewWalk(docs[k], Root, DocId(docs[k]), 0),
                     !.listed = @ \cup {docs[k]}]
             ELSE Loop(WriteRoot(m, docs[k]), k + 1)

\* The awaited walk of root document snapshot.i has taken a step.
Resume(r) ==
    IF r.next = NoWalk
    THEN Loop(WriteRoot([r.m EXCEPT !.walk = NoWalk],
                        r.m.snapshot.docs[r.m.snapshot.i]),
              r.m.snapshot.i + 1)
    ELSE [r.m EXCEPT !.walk = r.next]

\* An un-awaited walk has taken a step.
Settle(r) ==
    IF r.next = NoWalk THEN r.m
    ELSE [r.m EXCEPT !.pending = @ (+) SetToBag({r.next})]

Without(t) == [Cur EXCEPT !.pending = @ (-) SetToBag({t})]

----------------------------------------------------------------------------
(* Actions: one per I/O completion *)

Start ==
    /\ pc = "start"
    /\ Assign(GetAll(Cur, 0))

RootFetchReturns ==
    /\ pc = "get"
    /\ Assign(Loop([Cur EXCEPT
                      !.snapshot = [at |-> rootFetch.offset,
                                    docs |-> RootQuery(rootFetch.size, rootFetch.offset),
                                    i |-> 1]], 1))

\* .catch(err => error = err): data stays empty and getAll finishes.
RootFetchFails ==
    /\ pc = "get"
    /\ faults < MaxFaults
    /\ Assign(CleanUp([Cur EXCEPT !.raised = @ \cup {<<<<>>, 0>>},
                                  !.faults = @ + 1]))

WalkListReturns ==
    /\ pc = "walk" /\ walk.at = "listCollections"
    /\ Assign(Resume(ListReturns(Cur, walk)))

WalkGetReturns ==
    /\ pc = "walk" /\ walk.at = "get"
    /\ Assign(Resume(GetReturns(Cur, walk)))

WalkRaises ==
    /\ pc = "walk"
    /\ faults < MaxFaults
    /\ Assign(Resume(Catch(Cur, walk)))

ChildListReturns ==
    \E t \in BagToSet(pending) :
        /\ t.at = "listCollections"
        /\ Assign(Settle(ListReturns(Without(t), t)))

ChildGetReturns ==
    \E t \in BagToSet(pending) :
        /\ t.at = "get"
        /\ Assign(Settle(GetReturns(Without(t), t)))

ChildRaises ==
    \E t \in BagToSet(pending) :
        /\ faults < MaxFaults
        /\ Assign(Settle(Catch(Without(t), t)))

Next ==
    \/ Start
    \/ RootFetchReturns
    \/ RootFetchFails
    \/ WalkListReturns
    \/ WalkGetReturns
    \/ WalkRaises
    \/ ChildListReturns
    \/ ChildGetReturns
    \/ ChildRaises

----------------------------------------------------------------------------
(* Initial states *)

Values == {<<>>, <<"v">>}

FieldMaps(names) == UNION {[S -> Values] : S \in SUBSET names}

NoFields == [x \in {} |-> <<>>]

Stores(fieldMaps) ==
    [nRoot : 0..MaxRoot, nSub : 0..Len(SubNames), nDocs : 0..MaxDocs, fields : fieldMaps]

InitRun ==
    /\ pc = "start"
    /\ offset = 0
    /\ rootFetch = [offset |-> 0, size |-> 0, count |-> 0]
    /\ snapshot = NoSnapshot
    /\ walk = NoWalk
    /\ pending = EmptyBag
    /\ recordCounters = [x \in {} |-> 0]
    /\ written = EmptyBag
    /\ summary = <<>>
    /\ listed = {}
    /\ fetched = {}
    /\ raised = {}
    /\ faults = 0
    /\ errorLog = 0
    /\ lateWrite = FALSE

\* The inputs explored.  Dimensions an input cannot observe are pinned, and
\* the inputs that multiply interleavings are kept small:
\*  - without --include-subcollections nothing reads the nested data or the
\*    walk's parameters;
\*  - the hook is explored on runs without walks;
\*  - with maxDepth >= 2 every nested document leaves an un-awaited walk in
\*    flight, so those runs export one root document (limit = 1);
\*  - documents with source fields of their own are explored on a store with
\*    one document per collection and one nested collection per document.
Explored ==
    /\ ~includeSubcollections =>
          /\ store.nSub = 0 /\ store.nDocs = 0
          /\ maxDepth = 0 /\ subcollectionLimit = 1
    /\ includeSubcollections => processDocument = "none"
    /\ (includeSubcollections /\ maxDepth >= 2) => limit = 1
    /\ store.fields # NoFields =>
          /\ store.nRoot = 1 /\ store.nSub = 1 /\ store.nDocs = 1
          /\ includeSubcollections /\ maxDepth >= 1
          /\ limit = 1 /\ batchSize = 1 /\ subcollectionLimit = 1

Init ==
    /\ store \in Stores(FieldMaps({"firestore_id", "firestoreid", "original_id",
                                   "originalid", "collection_path"}))
    /\ batchSize \in BatchSizes
    /\ limit \in 0..MaxLimit
    /\ includeSubcollections \in BOOLEAN
    /\ maxDepth \in MaxDepths
    /\ subcollectionLimit \in SubcollectionLimits
    /\ processDocument \in Hooks
    /\ Explored
    /\ InitRun
    /\ MigratorIdle
    /\ ScannerIdle

Spec == Init /\ [][Next]_vars

\* The runs whose termination is examined: a store of one document per
\* collection, with and without a limit, with and without walks.
InitLive ==
    /\ Init
    /\ store.nRoot <= 1 /\ store.nDocs <= 1
    /\ store.fields = NoFields
    /\ batchSize = 1 /\ subcollectionLimit = 1
    /\ limit <= 1

\* Every I/O call that is in flight returns, with a result or with an error.
FairSpec ==
    /\ InitLive /\ [][Next]_vars
    /\ WF_vars(Start)
    /\ WF_vars(RootFetchReturns \/ RootFetchFails)
    /\ WF_vars(WalkListReturns \/ WalkGetReturns \/ WalkRaises)
    /\ WF_vars(ChildListReturns \/ ChildGetReturns \/ ChildRaises)

----------------------------------------------------------------------------
(* Observations used by the properties *)

Entries == BagToSet(written)

RECURSIVE Copies(_)
Copies(S) ==
    IF S = {} THEN 0
    ELSE LET e == CHOOSE x \in S : TRUE IN written[e] + Copies(S \ {e})

\* Number of records in relation name.
RelationSize(name) == Copies({e \in Entries : e.table = name})

\* Number of records made from document ref.
CopiesOf(ref) == Copies({e \in Entries : e.src = ref})

Parent(ref) == SubSeq(ref, 1, Len(ref) - 2)

SourceDefines(ref) == {f \in {IdentityFields[k] : k \in 1..4} : Has(Data(ref), f)}

\* The relation names reachable by a chain of exactly k nested collections.
RECURSIVE Chain(_)
Chain(k) ==
    IF k = 0 THEN {Root}
    ELSE {TableName(p, k - 1, SubNames[c]) : p \in Chain(k - 1), c \in DOMAIN SubNames}

NoFault == faults = 0

----------------------------------------------------------------------------
(* Properties *)

\* C1: with --include-subcollections and maxDepth = N, listCollections is
\* never called on a document at depth N or deeper, every record written
\* comes from a document at most N nested collections below the root and
\* goes to a relation named by a chain of at most N nested collections, and
\* with N = 0 only the root relation is ever written.
C1_DepthBound ==
    includeSubcollections =>
        /\ \A ref \in listed : DepthOf(ref) < maxDepth
        /\ \A e \in Entries :
              /\ DepthOf(e.src) <= maxDepth
              /\ \E k \in 0..maxDepth : e.table \in Chain(k)
        /\ maxDepth = 0 => \A e \in Entries : e.table = Root

\* A run with maxDepth = 2 over nested data three levels deep has written
\* records of the second nesting level and has finished all its walks.
C1_Witness ==
    /\ includeSubcollections /\ maxDepth = 2
    /\ store.nSub >= 1 /\ store.nDocs >= 1
    /\ pc = "done" /\ pending = EmptyBag
    /\ \E e \in Entries : DepthOf(e.src) = 2
    /\ \E ref \in listed : DepthOf(ref) = 1

\* The documents a fetch at offset off hands out when paging advances by offset.
PageAt(off) ==
    [j \in 1..(IF store.nRoot - off < 0 THEN 0 ELSE Min(batchSize, store.nRoot - off))
        |-> <<off + j>>]

\* C2: with limit = 0 paging advances by offset: every snapshot holds the
\* documents that follow the offset it was fetched at, no root document is
\* ever written twice, and once the export has finished every root document
\* is in the root relation exactly once.
C2_PagingByOffset ==
    (limit = 0 /\ processDocument = "none") =>
        /\ snapshot # NoSnapshot => snapshot.docs = PageAt(snapshot.at)
        /\ \A j \in 1..store.nRoot : CopiesOf(<<j>>) <= 1
        /\ (pc = "done" /\ NoFault) => \A j \in 1..store.nRoot : CopiesOf(<<j>>) = 1

\* C3: with every fetch returning, the export reaches Done, where cleanUp
\* has been called exactly once and the per-relation counts were emitted.
C3_ReachesDone == <>(pc = "done" /\ Len(summary) = 1)

\* C4: with maxDepth = 1 over R root documents that each own one nested
\* collection of K documents (none cut off by a limit, no I/O error), the
\* root relation never holds more than R records and the nested relation
\* never more than R*K, at the end they hold exactly R and R*K, and every
\* nested record names the root document that contains it and the root
\* collection.
C4_FlatExport ==
    LET R == store.nRoot
        K == store.nDocs
        nested == TableName(Root, 0, SubNames[1])
    IN  ( /\ includeSubcollections /\ maxDepth = 1 /\ store.nSub = 1
          /\ subcollectionLimit >= K
          /\ (limit = 0 \/ limit >= R)
          /\ NoFault ) =>
            /\ RelationSize(Root) <= R
            /\ RelationSize(nested) <= R * K
            /\ pc = "done" => RelationSize(Root) = R /\ RelationSize(nested) = R * K
            /\ \A e \in Entries :
                  e.table = nested =>
                      /\ e.rec["parent_document_id"] = DocId(Parent(e.src))
                      /\ e.rec["parent_collection"] = Root

\* C5: once all walks are over, for every nested collection whose fetch
\* raised, every sibling collection later in the listing of the same
\* document has been fetched and its documents written, and the document
\* itself has been written.
C5_SiblingsSurvive ==
    (pc = "done" /\ pending = EmptyBag) =>
        \A x \in raised :
            x[2] >= 1 =>
                /\ \A c \in (x[2] + 1)..store.nSub :
                      /\ <<x[1], c>> \in fetched
                      /\ \A j \in 1..Min(store.nDocs, subcollectionLimit) :
                            CopiesOf(x[1] \o <<c, j>>) >= 1
                /\ CopiesOf(x[1]) >= 1

\* C6: every record, root or nested, made from a document that defines none
\* of the four identity field names carries the document's id under
\* firestore_id.
C6_IdentityStored ==
    \A e \in Entries :
        SourceDefines(e.src) = {} =>
            /\ Has(e.rec, "firestore_id")
            /\ e.rec["firestore_id"] = DocId(e.src)

\* A finished run has written a root record and a nested record whose source
\* documents define no identity field.
C6_Witness ==
    /\ pc = "done"
    /\ \E e \in Entries : DepthOf(e.src) = 0 /\ SourceDefines(e.src) = {}
    /\ \E e \in Entries : DepthOf(e.src) >= 1 /\ SourceDefines(e.src) = {}

\* The first identity field name, in order, that the source does not define.
FirstFree(ref) ==
    IdentityFields[CHOOSE k \in 1..4 :
        /\ ~Has(Data(ref), IdentityFields[k])
        /\ \A h \in 1..(k - 1) : Has(Data(ref), IdentityFields[h])]

\* C7: every record, root or nested, made from a document that defines some
\* but not all of the four identity field names carries the document's id
\* under the first name the source does not define, and every field the
\* source had keeps its value.
C7_IdentityNoOverwrite ==
    \A e \in Entries :
        (SourceDefines(e.src) # {} /\ Cardinality(SourceDefines(e.src)) < 4) =>
            /\ Has(e.rec, FirstFree(e.src))
            /\ e.rec[FirstFree(e.src)] = DocId(e.src)
            /\ \A f \in SourceDefines(e.src) : e.rec[f] = Data(e.src)[f]

\* The collection_path built from the ancestors of a nested document.
RECURSIVE PathOf(_)
PathOf(ref) ==
    LET name == SubNames[ref[Len(ref) - 1]]
    IN  IF DepthOf(ref) = 1
        THEN Root \o <<"/">> \o DocId(Parent(ref)) \o <<"/">> \o name
        ELSE PathOf(Parent(ref)) \o <<"/">> \o name

\* C8: the collection_path of every nested record is root/parentDocId/name at
\* the first nesting level and the parent record's collection_path followed
\* by the nested collection name at every deeper level.
C8_PathFromAncestors ==
    \A e \in Entries :
        DepthOf(e.src) >= 1 => e.rec["collection_path"] = PathOf(e.src)

\* C9: every relation name handed to writeRecord consists of alphanumeric
\* characters and underscores only.
C9_SafeRelationNames ==
    \A e \in Entries : \A k \in DOMAIN e.table : e.table[k] \in AlnumChars \cup {"_"}

\* C10: with limit = L > 0 and no hook, the root relation never holds more
\* than L records, and every root fetch was issued with fewer than L records
\* written and for no more documents than the limit still allowed.
C10_LimitRespected ==
    (limit > 0 /\ processDocument = "none") =>
        /\ RelationSize(Root) <= limit
        /\ Count(recordCounters, Root) <= limit
        /\ pc # "start" =>
              /\ rootFetch.count < limit
              /\ rootFetch.size <= limit - rootFetch.count

\* A run over more documents than the limit allows has stopped with exactly
\* limit records in the root relation.
C10_Witness ==
    /\ limit > 0 /\ processDocument = "none"
    /\ store.nRoot > limit /\ batchSize > limit
    /\ pc = "done" /\ NoFault
    /\ RelationSize(Root) = limit

----------------------------------------------------------------------------
(* The Function Scanner: source texts *)

\* A source text is a sequence of lexical tokens.  White space that the
\* patterns demand (\s+) is part of the token; optional white space is absent.
Names == {"f", "g"}                     \* function names

\* tok reads <name>...Handler
HandlerOf(tok, name) == <<tok, name>> \in {<<"fHandler", "f">>, <<"gHandler", "g">>}

\* tok starts with name
StartsWith(tok, name) == tok = name \/ HandlerOf(tok, name)

Quoted == {"'f'", "'g'", "'p'"}         \* quoted string literals

Unquote == [t \in Quoted |-> IF t = "'f'" THEN "f" ELSE IF t = "'g'" THEN "g" ELSE "p"]

\* the tokens \w+ matches
Words == Names \cup {"fHandler", "gHandler", "functionName", "onCreate", "x"}

\* Number of characters of a token.
Width(tok) ==
    CASE tok \in {"{", "}", "(", ")", ",", ";", "=", ".", "x", "f", "g"} -> 1
      [] tok = "=>" -> 2
      [] tok \in Quoted -> 3
      [] tok = "const " -> 6
      [] tok = ".onRun" -> 6
      [] tok \in {"exports.", "fHandler", "gHandler", "onCreate", "return 1"} -> 8
      [] tok = "(req,res)" -> 9
      [] tok = "functionName" -> 12
      [] tok = "export const " -> 13
      [] tok = "async function " -> 15
      [] tok = "createHttpFunction" -> 18
      [] tok = "functions.auth.user()" -> 21
      [] tok \in {"functions.https.onCall", "functions.pubsub.topic", "createCallableFunction"} -> 22
      [] tok \in {"createFirestoreFunction", "createScheduledFunction"} -> 23
      [] tok \in {"functions.https.onRequest", "functions.pubsub.schedule"} -> 25
      [] tok = "functions.storage.object()" -> 26
      [] tok = "functions.firestore.document" -> 28

\* String.prototype.length of a text.
RECURSIVE Length(_)
Length(text) == IF text = <<>> THEN 0 ELSE Width(Head(text)) + Length(Tail(text))

\* extractFunctionBody's loop from index i (counted from 0, as in the code).
RECURSIVE ExtractFrom(_, _, _, _, _)
ExtractFrom(text, i, depth, inFunction, acc) ==
    IF i >= Len(text) THEN acc
    ELSE LET char == text[i + 1]
             opened == IF char = "{" THEN depth + 1 ELSE depth
             inside == inFunction \/ char = "{"
             taken == IF inside THEN Append(acc, char) ELSE acc
             closed == IF char = "}" THEN opened - 1 ELSE opened
         IN  IF char = "}" /\ closed = 0 /\ inside
             THEN taken
             ELSE ExtractFrom(text, i + 1, closed, inside, taken)

ExtractFunctionBody(text, from) == ExtractFrom(text, from, 0, FALSE, <<>>)

----------------------------------------------------------------------------
(* The Function Scanner: the pattern registry *)

\* A pattern is the sequence of token sets its regular expression accepts,
\* with the position of its first capture group.
Exports(tail) == [toks |-> <<{"exports."}, Words, {"="}>> \o tail, cap |-> 2]

ExportConst(tail) == [toks |-> <<{"export const "}, Words, {"="}>> \o tail, cap |-> 2]

Factory(name) == [toks |-> <<{name}, {"("}, Quoted>>, cap |-> 3]

Document == <<{"functions.firestore.document"}, {"("}, Quoted, {")"}, {"."}, Words>>

\* Object.entries(patterns), in insertion order.
PatternKeys ==
    <<"https", "callable", "firestore", "auth", "storage", "pubsub", "scheduler",
      "https_es6", "callable_es6", "firestore_es6", "auth_es6",
      "http_factory", "callable_factory", "firestore_factory", "scheduled_factory",
      "export_http", "export_callable", "export_firestore", "export_scheduled",
      "handler", "async_handler">>

Patterns ==
    [https |-> Exports(<<{"functions.https.onRequest"}>>),
     callable |-> Exports(<<{"functions.https.onCall"}>>),
     firestore |-> Exports(Document),
     auth |-> Exports(<<{"functions.auth.user()"}, {"."}, Words>>),
     storage |-> Exports(<<{"functions.storage.object()"}, {"."}, Words>>),
     pubsub |-> Exports(<<{"functions.pubsub.topic", "functions.pubsub.schedule"},
                          {"("}, Quoted, {")"}, {".onRun"}>>),
     scheduler |-> Exports(<<{"functions.pubsub.schedule"}, {"("}, Quoted, {")"}>>),
     https_es6 |-> ExportConst(<<{"createHttpFunction"}>>),
     callable_es6 |-> ExportConst(<<{"functions.https.onCall"}>>),
     firestore_es6 |-> ExportConst(Document),
     auth_es6 |-> ExportConst(<<{"functions.auth.user()"}, {"."}, Words>>),
     http_factory |-> Factory("createHttpFunction"),
     callable_factory |-> Factory("createCallableFunction"),
     firestore_factory |-> Factory("createFirestoreFunction"),
     scheduled_factory |-> Factory("createScheduledFunction"),
     export_http |-> ExportConst(<<{"createHttpFunction"}>>),
     export_callable |-> ExportConst(<<{"createCallableFunction"}>>),
     export_firestore |-> ExportConst(<<{"createFirestoreFunction"}>>),
     export_scheduled |-> ExportConst(<<{"createScheduledFunction"}>>),
     handler |-> [toks |-> <<{"const "}, {"fHandler", "gHandler"}, {"="}, {"(req,res)"}, {"=>"}>>,
                  cap |-> 2],
     async_handler |-> [toks |-> <<{"async function "}, Words, {"(req,res)"}>>, cap |-> 2]]

\* type.includes(part), for the keys of the registry.
Includes(type, part) ==
    type \in (CASE part = "https" -> {"https", "https_es6"}
                [] part = "http" -> {"https", "https_es6", "http_factory", "export_http"}
                [] part = "callable" -> {"callable", "callable_es6", "callable_factory", "export_callable"}
                [] part = "firestore" -> {"firestore", "firestore_es6", "firestore_factory", "export_firestore"}
                [] part = "auth" -> {"auth", "auth_es6"}
                [] part = "storage" -> {"storage"}
                [] part = "pubsub" -> {"pubsub"}
                [] part = "scheduler" -> {"scheduler"}
                [] part = "handler" -> {"handler", "async_handler"}
                [] part = "async_handler" -> {"async_handler"}
                [] part = "_es6" -> {"https_es6", "callable_es6", "firestore_es6", "auth_es6"}
                [] part = "_factory" -> {"http_factory", "callable_factory", "firestore_factory", "scheduled_factory"}
                [] part = "export_" -> {"export_http", "export_callable", "export_firestore", "export_scheduled"})

NormalizeType(type) ==
    IF Includes(type, "https") \/ Includes(type, "http") THEN "https"
    ELSE IF Includes(type, "callable") THEN "callable"
    ELSE IF Includes(type, "firestore") THEN "firestore"
    ELSE IF Includes(type, "auth") THEN "auth"
    ELSE IF Includes(type, "storage") THEN "storage"
    ELSE IF Includes(type, "pubsub") THEN "pubsub"
    ELSE IF Includes(type, "scheduler") THEN "scheduler"
    ELSE type

\* pattern p matches the text at position i (counted from 1)
MatchesAt(text, p, i) ==
    /\ i + Len(p.toks) - 1 <= Len(text)
    /\ \A k \in 1..Len(p.toks) : text[i + k - 1] \in p.toks[k]

\* The positions pattern.exec finds in turn: leftmost first, the search
\* resuming behind the previous match.
RECURSIVE MatchesFrom(_, _, _)
MatchesFrom(text, p, i) ==
    IF i > Len(text) THEN <<>>
    ELSE IF MatchesAt(text, p, i)
         THEN <<i>> \o MatchesFrom(text, p, i + Len(p.toks))
         ELSE MatchesFrom(text, p, i + 1)

\* match[1]
Captured(text, p, i) ==
    LET tok == text[i + p.cap - 1] IN IF tok \in Quoted THEN Unquote[tok] ELSE tok

----------------------------------------------------------------------------
(* The Function Scanner: parseCloudFunctions *)

MinBodyLength == 10

SubstringLimit == 1000

First(S) == CHOOSE i \in S : \A j \in S : i <= j

\* content.substring(0, n), cut at a token boundary
RECURSIVE Substring(_, _)
Substring(text, n) ==
    IF text = <<>> \/ Width(Head(text)) > n THEN <<>>
    ELSE <<Head(text)>> \o Substring(Tail(text), n - Width(Head(text)))

ExtractModernFunctionBody(text, functionName) ==
    LET at == 1..Len(text)
        handlerMatch ==
            {i \in at : /\ i + 4 <= Len(text)
                        /\ text[i] = "const " /\ HandlerOf(text[i + 1], functionName)
                        /\ text[i + 2] = "=" /\ text[i + 3] = "(req,res)"
                        /\ text[i + 4] = "=>"}
        semicolons(i) == {j \in at : j > i + 1 /\ text[j] = ";"}
        exportMatch ==
            {i \in at : /\ i + 1 <= Len(text)
                        /\ text[i] = "export const " /\ StartsWith(text[i + 1], functionName)
                        /\ semicolons(i) # {}}
        opens(i) == {j \in at : j > i /\ text[j] = "{"}
        closes(j) == {k \in at : k > j /\ text[k] = "}"}
        asyncMatch ==
            {i \in at : /\ text[i] = "async function "
                        /\ opens(i) # {} /\ closes(First(opens(i))) # {}}
    IN  IF handlerMatch # {} THEN ExtractFunctionBody(text, First(handlerMatch) - 1)
        ELSE IF exportMatch # {}
             THEN SubSeq(text, First(exportMatch), First(semicolons(First(exportMatch))))
        ELSE IF asyncMatch # {}
             THEN SubSeq(text, First(asyncMatch), First(closes(First(opens(First(asyncMatch))))))
        ELSE Substring(text, SubstringLimit)

\* func.body && func.body.length >= 10
MeaningfulAtThreshold(funcBody) == funcBody # <<>> /\ Length(funcBody) >= MinBodyLength

\* func.body && func.body.length > 10
Meaningful(funcBody) == funcBody # <<>> /\ Length(funcBody) > MinBodyLength

\* The body of the while loop for the match of pattern `type` at position i:
\* the records it pushes (none or one).  The document, trigger and schedule
\* properties are copied into the templates only and are left out.
Matched(text, filename, type, i) ==
    LET p == Patterns[type]
        name == Captured(text, p, i)
        ftype == IF type \in {"http_factory", "export_http"} THEN "https"
                 ELSE IF type \in {"callable_factory", "export_callable"} THEN "callable"
                 ELSE IF type \in {"firestore_factory", "export_firestore"} THEN "firestore"
                 ELSE IF type \in {"scheduled_factory", "export_scheduled"} THEN "scheduler"
                 ELSE NormalizeType(type)
        funcBody == IF Includes(type, "_es6") \/ Includes(type, "_factory") \/ Includes(type, "export_")
                    THEN ExtractModernFunctionBody(text, name)
                    ELSE ExtractFunctionBody(text, i - 1)
    IN  IF Includes(type, "handler") \/ Includes(type, "async_handler") THEN <<>>
        ELSE IF Meaningful(funcBody)
             THEN <<[name |-> name, type |-> ftype, source |-> filename,
                     raw |-> SubSeq(text, i, i + Len(p.toks) - 1), body |-> funcBody]>>
             ELSE <<>>

RECURSIVE MatchedAll(_, _, _, _)
MatchedAll(text, filename, type, found) ==
    IF found = <<>> THEN <<>>
    ELSE Matched(text, filename, type, Head(found))
         \o MatchedAll(text, filename, type, Tail(found))

RECURSIVE ParseFrom(_, _, _)
ParseFrom(text, filename, k) ==
    IF k > Len(PatternKeys) THEN <<>>
    ELSE MatchedAll(text, filename, PatternKeys[k],
                    MatchesFrom(text, Patterns[PatternKeys[k]], 1))
         \o ParseFrom(text, filename, k + 1)

ParseCloudFunctions(text, filename) == ParseFrom(text, filename, 1)

----------------------------------------------------------------------------
(* Direct calls of the scanner's methods *)

MaxLen == 5         \* longest text of single characters

\* texts of the characters that extractFunctionBody tells apart
BraceTexts == UNION {[1..n -> {"{", "}", "x"}] : n \in 0..MaxLen}

\* handler bodies of 3, 10, 11 and 13 characters, braces included
Statements == {<<"x">>, <<"return 1">>, <<"return 1", "x">>, <<"{", "x", "}", "return 1">>}

Arrow(stmts) == <<"(req,res)", "=>", "{">> \o stmts \o <<"}">>

\* exports.<n> = <trigger>((req,res) => {...});
Direct(n, trigger, stmts) ==
    <<"exports.", n, "=">> \o trigger \o <<"(">> \o Arrow(stmts) \o <<")", ";">>

HandlerName(n) == IF n = "f" THEN "fHandler" ELSE "gHandler"

Quote(n) == IF n = "f" THEN "'f'" ELSE "'g'"

\* const <n>Handler = (req,res) => {...};
\* export const <n> = <factory>(<arg>, <n>Handler);
\* as in src/test-functions/index.js (deleteExamMarks)
ByFactory(n, factory, arg, stmts) ==
    <<"const ", HandlerName(n), "=">> \o Arrow(stmts) \o <<";">>
    \o <<"export const ", n, "=", factory, "(", arg, ",", HandlerName(n), ")", ";">>

Declarations ==
    {Direct(n, <<t>>, st) :
        n \in Names, t \in {"functions.https.onRequest", "functions.https.onCall"},
        st \in Statements}
    \cup {Direct(n, <<"functions.pubsub.schedule", "(", "'p'", ")", ".onRun">>, <<"return 1", "x">>) :
        n \in Names}
    \cup UNION {{ByFactory(n, fa, arg, st) : arg \in {"functionName", Quote(n)}, st \in Statements} :
        n \in Names, fa \in {"createHttpFunction", "createCallableFunction"}}

\* files of no, one or two declarations
SourceTexts == {<<>>} \cup Declarations \cup {a \o b : a \in Declarations, b \in Declarations}

\* the exporter, not running, on an empty store
ExporterIdle ==
    /\ store = [nRoot |-> 0, nSub |-> 0, nDocs |-> 0, fields |-> NoFields]
    /\ batchSize = 1 /\ limit = 0 /\ includeSubcollections = FALSE
    /\ maxDepth = 0 /\ subcollectionLimit = 1 /\ processDocument = "none"
    /\ InitRun

ScannerInit ==
    /\ content \in BraceTexts \cup SourceTexts
    /\ startIndex \in (IF content \in BraceTexts THEN 0..Len(content) ELSE {0})
    /\ called = "none" /\ body = <<>> /\ parsed = <<>>
    /\ RewriterIdle /\ HandlerIdle
    /\ ExporterIdle
    /\ MigratorIdle

CallExtractFunctionBody ==
    /\ called = "none"
    /\ called' = "extractFunctionBody"
    /\ body' = ExtractFunctionBody(content, startIndex)
    /\ UNCHANGED <<content, startIndex, parsed, exporterVars, migratorVars, generatorVars>>

CallParseCloudFunctions ==
    /\ called = "none"
    /\ called' = "parseCloudFunctions"
    /\ parsed' = ParseCloudFunctions(content, "index.js")
    /\ UNCHANGED <<content, startIndex, body, exporterVars, migratorVars, generatorVars>>

ScannerNext == CallExtractFunctionBody \/ CallParseCloudFunctions

ScannerSpec == ScannerInit /\ [][ScannerNext]_vars

----------------------------------------------------------------------------
(* The Function Migrator: scanning *)

MaxRuns == 2        \* calls of migrate() on one migrator
MaxFsFaults == 1    \* file-system errors injected

Truthy(s) == s # ""

\* log(message, type) on the report
Log(report, message, type) ==
    IF type = "error" THEN [report EXCEPT !.errors = Append(@, message)]
    ELSE IF type = "warn" THEN [report EXCEPT !.warnings = Append(@, message)]
    ELSE report

\* The loop over functionFiles: the records pushed so far and whether
\* readFileSync raised.
RECURSIVE ScanFiles(_, _, _)
ScanFiles(files, k, acc) ==
    IF k > Len(files) THEN [functions |-> acc, raised |-> FALSE]
    ELSE IF ~files[k].readable THEN [functions |-> acc, raised |-> TRUE]
    ELSE ScanFiles(files, k + 1, acc \o ParseCloudFunctions(files[k].content, files[k].name))

\* parseFunctionsFromSource: the report after it and the list it returns
ParseFunctionsFromSource(report, files) ==
    IF Len(files) = 0
    THEN [report |-> Log(report, <<"Error parsing functions", "No JavaScript/TypeScript files found">>, "error"),
          functions |-> <<>>]
    ELSE LET scan == ScanFiles(files, 1, <<>>)
         IN  [report |-> IF scan.raised
                         THEN Log(report, <<"Error parsing functions", "EACCES">>, "error")
                         ELSE report,
              functions |-> scan.functions]

\* one record per listed line that holds a name and a URL
RECURSIVE Listed(_)
Listed(names) ==
    IF names = <<>> THEN <<>>
    ELSE <<[name |-> Head(names), type |-> "https", source |-> "firebase-deployed",
            url |-> <<"https://", Head(names)>>]>> \o Listed(Tail(names))

\* parseFunctionsFromFirebase: inventory is what the two commands did
ParseFunctionsFromFirebase(report, inventory) ==
    IF ~inventory.list
    THEN [report |-> Log(report, <<"Error fetching Firebase functions", "ENOENT">>, "error"),
          functions |-> <<>>]
    ELSE [report |-> IF inventory.code THEN report
                     ELSE Log(report, <<"Could not retrieve source code">>, "warn"),
          functions |-> Listed(inventory.names)]

----------------------------------------------------------------------------
(* The Function Migrator: createEdgeFunctions, generateReport, migrate *)

\* The migrator's state as one record, so that the methods are operators on it.
MCur ==
    [report |-> migrationReport, mpc |-> mpc, caller |-> caller,
     functions |-> functions, idx |-> idx, summary |-> migrationSummary,
     tree |-> outputTree, runs |-> runs, skipped |-> skipped, thrown |-> thrown,
     reportWrites |-> reportWrites, fsFaults |-> fsFaults]

MAssign(m) ==
    /\ migrationReport' = m.report
    /\ mpc' = m.mpc
    /\ caller' = m.caller
    /\ functions' = m.functions
    /\ idx' = m.idx
    /\ migrationSummary' = m.summary
    /\ outputTree' = m.tree
    /\ runs' = m.runs
    /\ skipped' = m.skipped
    /\ thrown' = m.thrown
    /\ reportWrites' = m.reportWrites
    /\ fsFaults' = m.fsFaults
    /\ UNCHANGED <<sourceDir, firebaseProject, sourceFiles, deployed>>
    /\ UNCHANGED <<exporterVars, scannerVars, generatorVars>>

\* the keys of generateEdgeFunction's templates
Templates == {"https", "callable", "firestore", "auth", "storage", "pubsub", "scheduler"}

\* generateEdgeFunction: null without a template; every template passes
\* func.body to convertFirebaseToSupabase, whose first replace raises a
\* TypeError on undefined.
GenerateEdgeFunction(report, func) ==
    IF func.type \notin Templates
    THEN [report |-> Log(report, <<"Unsupported function type", func.type>>, "warn"),
          result |-> "null"]
    ELSE [report |-> report,
          result |-> IF "body" \in DOMAIN func THEN "code" ELSE "TypeError"]

\* a write that leaves an existing file as it is
PutIfAbsent(files, path, v) ==
    [x \in DOMAIN files \cup {path} |-> IF x \in DOMAIN files THEN files[x] ELSE v]

\* writeFileSync: the file at path holds v afterwards, whatever it held before
Put(files, path, v) == [x \in DOMAIN files \cup {path} |-> IF x = path THEN v ELSE files[x]]

\* The file-system calls of one unit, in order: 1 mkdirSync, 2 writeFileSync
\* of index.ts, 3 writeFileSync of deno.json.  `stop` is the call that
\* raises, 4 when none does.
Unit(m, func, stop) ==
    LET by == [run |-> m.runs, rec |-> m.idx + 1]
        index == [by |-> by, data |-> <<"index.ts", func.type, func.name>>]
        deno == [by |-> by, data |-> <<"deno.json", "imports", "supabase">>]
        dirs1 == IF stop > 1 THEN m.tree.dirs \cup {<<func.name>>} ELSE m.tree.dirs
        files1 == IF stop > 2 THEN Put(m.tree.files, <<func.name, "index.ts">>, index)
                  ELSE m.tree.files
        files2 == IF stop > 3 THEN Put(files1, <<func.name, "deno.json">>, deno) ELSE files1
    IN  [m EXCEPT !.tree = [dirs |-> dirs1, files |-> files2]]

\* a catch block that leaves the loop
FailedAndStop(m, func, message) ==
    [m EXCEPT !.report = [Log(@, <<"Failed to migrate function", func.name, message>>, "error")
                             EXCEPT !.failed = @ + 1],
              !.summary = Append(@, [name |-> func.name, type |-> func.type,
                                     status |-> "failed", error |-> message]),
              !.thrown = Append(@, [rec |-> m.idx + 1, message |-> message]),
              !.idx = Len(m.functions)]

\* the catch block of the loop body
Failed(m, func, message) ==
    [m EXCEPT !.report = [Log(@, <<"Failed to migrate function", func.name, message>>, "error")
                             EXCEPT !.failed = @ + 1],
              !.summary = Append(@, [name |-> func.name, type |-> func.type,
                                     status |-> "failed", error |-> message]),
              !.thrown = Append(@, [rec |-> m.idx + 1, message |-> message]),
              !.idx = @ + 1]

\* the end of the try block
Migrated(m, func) ==
    [m EXCEPT !.report.migrated = @ + 1,
              !.summary = Append(@, [name |-> func.name, type |-> func.type,
                                     status |-> "migrated", path |-> <<func.name>>]),
              !.idx = @ + 1]

\* a null result handled as a failure
SkippedAsFailed(m, func) == Failed(m, func, "unsupported type")

\* the branch taken when generateEdgeFunction returned null
Skipped(m, func) ==
    [m EXCEPT !.report = Log(@, <<"Skipping function", func.name, "unsupported type">>, "warn"),
              !.skipped = Append(@, func.name),
              !.idx = @ + 1]

\* one iteration of the loop over the records
LoopBody(m, stop) ==
    LET func == m.functions[m.idx + 1]
        gen == GenerateEdgeFunction(m.report, func)
        m1 == [m EXCEPT !.report = gen.report]
    IN  IF gen.result = "null" THEN Skipped(m1, func)
        ELSE IF gen.result = "TypeError" THEN Failed(m1, func, "TypeError")
        ELSE IF stop <= 3
             THEN Failed([Unit(m1, func, stop) EXCEPT !.fsFaults = @ + 1], func, "EIO")
             ELSE Migrated(Unit(m1, func, 4), func)

\* createEdgeFunctions up to its loop; mkdirSync of the output directory
\* is outside every try block
CreateEdgeFunctions(m, list, who, mkdirRaises) ==
    LET m1 == [m EXCEPT !.caller = who, !.functions = list, !.idx = 0, !.summary = <<>>,
                        !.skipped = <<>>, !.thrown = <<>>, !.reportWrites = 0]
    IN  IF <<>> \in m.tree.dirs THEN [m1 EXCEPT !.mpc = "loop"]
        ELSE IF mkdirRaises THEN [m1 EXCEPT !.mpc = "threw", !.fsFaults = @ + 1]
        ELSE [m1 EXCEPT !.mpc = "loop", !.tree.dirs = @ \cup {<<>>}]

\* generateReport and the rest of migrate
GenerateReport(m, writeRaises) ==
    LET text == [total |-> m.report.total, migrated |-> m.report.migrated,
                 failed |-> m.report.failed, summary |-> m.summary,
                 warnings |-> m.report.warnings, errors |-> m.report.errors]
    IN  IF writeRaises THEN [m EXCEPT !.mpc = "threw", !.fsFaults = @ + 1]
        ELSE [m EXCEPT !.mpc = "done", !.reportWrites = @ + 1,
                       !.tree.files = Put(@, <<"MIGRATION_REPORT.md">>,
                                          [by |-> [run |-> m.runs, rec |-> 0], data |-> text])]

\* migrate() up to the loop of createEdgeFunctions
MigrateCall(m, mkdirRaises) ==
    LET m0 == [m EXCEPT !.runs = @ + 1, !.caller = "migrate", !.functions = <<>>,
                        !.idx = 0, !.summary = <<>>, !.skipped = <<>>, !.thrown = <<>>,
                        !.reportWrites = 0]
        scan == IF Truthy(sourceDir) THEN ParseFunctionsFromSource(m.report, sourceFiles)
                ELSE ParseFunctionsFromFirebase(m.report, deployed)
        m1 == [m0 EXCEPT !.report = [scan.report EXCEPT !.total = Len(scan.functions)]]
    IN  IF ~Truthy(sourceDir) /\ ~Truthy(firebaseProject)
        THEN [m0 EXCEPT !.mpc = "done",
                        !.report = Log(@, <<"Either --source or --firebase-project must be specified">>,
                                       "error")]
        ELSE IF Len(scan.functions) = 0
        THEN [m1 EXCEPT !.mpc = "done",
                        !.report = Log(@, <<"No functions found to migrate">>, "warn")]
        ELSE CreateEdgeFunctions(m1, scan.functions, "migrate", mkdirRaises)

Returned == mpc \in {"idle", "done", "threw"}

\* migrator.migrate()
Migrate ==
    /\ Returned /\ caller # "direct"
    /\ runs < MaxRuns
    /\ \E mkdirRaises \in BOOLEAN :
          /\ mkdirRaises => fsFaults < MaxFsFaults
          /\ MAssign(MigrateCall(MCur, mkdirRaises))

\* the records a caller of createEdgeFunctions passes: with and without a
\* template for their type, with and without a body
Passed ==
    {[name |-> "f", type |-> "https", source |-> "index.js", body |-> <<"{", "return 1", "x", "}">>],
     [name |-> "g", type |-> "https", source |-> "firebase-deployed"],
     [name |-> "g", type |-> "webhook", source |-> "index.js", body |-> <<"{", "return 1", "x", "}">>]}

PassedLists == {<<>>} \cup {<<a>> : a \in Passed} \cup {<<a, b>> : a \in Passed, b \in Passed}

\* migrator.createEdgeFunctions(list), on a new migrator
CallCreateEdgeFunctions ==
    /\ mpc = "idle" /\ runs = 0
    /\ \E list \in PassedLists, mkdirRaises \in BOOLEAN :
          /\ mkdirRaises => fsFaults < MaxFsFaults
          /\ MAssign(CreateEdgeFunctions([MCur EXCEPT !.runs = 1], list, "direct", mkdirRaises))

\* one iteration of the loop
ProcessFunction ==
    /\ mpc = "loop" /\ idx < Len(functions)
    /\ \E stop \in 1..4 :
          /\ stop <= 3 => /\ fsFaults < MaxFsFaults
                          /\ GenerateEdgeFunction(migrationReport, functions[idx + 1]).result = "code"
          /\ stop = 1 => <<functions[idx + 1].name>> \notin outputTree.dirs
          /\ MAssign(LoopBody(MCur, stop))

\* the loop is over: createEdgeFunctions returns, migrate writes the report
ReturnSummary ==
    /\ mpc = "loop" /\ idx = Len(functions)
    /\ IF caller = "direct" THEN MAssign([MCur EXCEPT !.mpc = "done"])
       ELSE \E writeRaises \in BOOLEAN :
              /\ writeRaises => fsFaults < MaxFsFaults
              /\ MAssign(GenerateReport(MCur, writeRaises))

MigratorNext == Migrate \/ CallCreateEdgeFunctions \/ ProcessFunction \/ ReturnSummary

\* source files: a direct-call function f, the same with a three-character
\* body, a factory-style export of g, and f next to a factory-style callable g
OneDirect == Direct("f", <<"functions.https.onRequest">>, <<"return 1", "x">>)

TooShort == Direct("f", <<"functions.https.onRequest">>, <<"x">>)

OneFactory == ByFactory("g", "createHttpFunction", "functionName", <<"return 1", "x">>)

DirectAndFactory ==
    OneDirect \o ByFactory("g", "createCallableFunction", "functionName", <<"return 1", "x">>)

File(name, text, readable) == [name |-> name, content |-> text, readable |-> readable]

SourceDirs ==
    {<<>>} \cup {<<File("index.js", t, TRUE)>> : t \in {OneDirect, TooShort, OneFactory, DirectAndFactory}}
    \cup {<<File("a.js", OneDirect, ra), File("b.js", t, rb)>> :
            t \in {OneDirect, OneFactory}, ra \in BOOLEAN, rb \in BOOLEAN}

Inventories ==
    {[list |-> FALSE, names |-> <<>>, code |-> FALSE]}
    \cup {[list |-> TRUE, names |-> n, code |-> c] : n \in {<<>>, <<"f">>, <<"f", "g">>}, c \in BOOLEAN}

\* The source directory is read only when --source is given and the
\* inventory only when it is not.
MigratorInit ==
    /\ sourceDir \in {"", "functions"}
    /\ firebaseProject \in {"", "my-project"}
    /\ sourceFiles \in SourceDirs
    /\ deployed \in Inventories
    /\ Truthy(sourceDir) => deployed = [list |-> FALSE, names |-> <<>>, code |-> FALSE]
    /\ ~Truthy(sourceDir) => sourceFiles = <<>>
    /\ migrationReport = [total |-> 0, migrated |-> 0, failed |-> 0,
                          warnings |-> <<>>, errors |-> <<>>]
    /\ mpc = "idle" /\ caller = "none"
    /\ functions = <<>> /\ idx = 0 /\ migrationSummary = <<>>
    /\ outputTree \in {[dirs |-> d, files |-> <<>>] : d \in {{}, {<<>>}}}
    /\ runs = 0 /\ skipped = <<>> /\ thrown = <<>>
    /\ reportWrites = 0 /\ fsFaults = 0
    /\ ExporterIdle
    /\ ScannerIdle

MigratorSpec == MigratorInit /\ [][MigratorNext]_vars

----------------------------------------------------------------------------
(* Properties of the Function Migrator *)

\* the names the summary lists with a status
Bucket(status) ==
    {migrationSummary[k].name : k \in {j \in 1..Len(migrationSummary) : migrationSummary[j].status = status}}

SkippedNames == {skipped[k] : k \in 1..Len(skipped)}

Counted == migrationReport.migrated + migrationReport.failed

\* the first migrate() of a migrator
FirstRun == caller = "migrate" /\ runs = 1

\* C11: in a single run of migrate, migrated + failed never exceeds total,
\* at the end migrated + failed + skipped equals total, and no function name
\* is in more than one of the migrated, failed and skipped buckets.
C11_BucketsPartitionTotal ==
    FirstRun =>
        /\ Counted <= migrationReport.total
        /\ mpc = "done" => Counted + Len(skipped) = migrationReport.total
        /\ Bucket("migrated") \cap Bucket("failed") = {}
        /\ Bucket("migrated") \cap SkippedNames = {}
        /\ Bucket("failed") \cap SkippedNames = {}

\* the report the constructor makes
FreshReport == [total |-> 0, migrated |-> 0, failed |-> 0, warnings |-> <<>>, errors |-> <<>>]

\* C12: every call of migrate starts from a fresh report, so that after any
\* sequence of calls the counts and the warnings and errors lists are those
\* of the last call, and migrated + failed <= total.
C12_FreshReportPerCall ==
    /\ [](caller = "migrate" => Counted <= migrationReport.total)
    /\ [][(caller' = "migrate" /\ runs' = runs + 1) =>
             \E mkdirRaises \in BOOLEAN :
                migrationReport' = MigrateCall([MCur EXCEPT !.report = FreshReport], mkdirRaises).report]_vars

\* C13: an exception raised while a record is generated or written marks
\* exactly that record failed -- failed grows by one, migrated stays, the
\* summary gains an entry with status failed and the exception's message --
\* and the loop goes on with the next record, so that every record of the
\* list is processed, in order.
C13_FailureIsLocal ==
    /\ [][(mpc = "loop" /\ thrown' # thrown) =>
             LET func == functions[idx + 1]
                 e == thrown'[Len(thrown')]
             IN  /\ thrown' = Append(thrown, e) /\ e.rec = idx + 1
                 /\ migrationReport'.failed = migrationReport.failed + 1
                 /\ migrationReport'.migrated = migrationReport.migrated
                 /\ migrationSummary' = Append(migrationSummary,
                        [name |-> func.name, type |-> func.type,
                         status |-> "failed", error |-> e.message])
                 /\ skipped' = skipped
                 /\ functions' = functions /\ mpc' = "loop" /\ idx' = idx + 1]_vars
    /\ [][(mpc = "loop" /\ idx' # idx) => idx' = idx + 1]_vars
    /\ [](mpc = "done" /\ caller \in {"migrate", "direct"} => idx = Len(functions))

\* the first of two records failed and the second was migrated
C13_Witness ==
    /\ mpc = "done" /\ Len(functions) = 2
    /\ Len(thrown) = 1 /\ thrown[1].rec = 1
    /\ Len(migrationSummary) = 2
    /\ migrationSummary[1].status = "failed" /\ migrationSummary[2].status = "migrated"

\* the files that the processing of record number rec of the current call wrote
WrittenBy(rec) ==
    {path \in DOMAIN outputTree.files : outputTree.files[path].by = [run |-> runs, rec |-> rec]}

\* C14: a record reported as failed has left none of its output files
\* (index.ts, deno.json) in the output tree, whichever call raised.
C14_NoPartialUnit ==
    \A k \in 1..Len(thrown) : WrittenBy(thrown[k].rec) = {}

\* exactly one of the source directory and the source project is given
ExactlyOneSource == Truthy(sourceDir) # Truthy(firebaseProject)

ReportPath == <<"MIGRATION_REPORT.md">>

\* the source could be read: the directory holds files and all are
\* readable, or the inventory command succeeded
SourceRead ==
    IF Truthy(sourceDir)
    THEN sourceFiles # <<>> /\ \A k \in 1..Len(sourceFiles) : sourceFiles[k].readable
    ELSE deployed.list

\* C15: a migrate() that passed the configuration check, read its source
\* and has returned has written the report into the output directory
\* exactly once, with the counts of this run -- also when the scanner found
\* no record (total = 0).
C15_ReportWrittenOnce ==
    /\ reportWrites <= 1
    /\ (caller = "migrate" /\ mpc = "done" /\ ExactlyOneSource /\ SourceRead) =>
          /\ reportWrites = 1
          /\ ReportPath \in DOMAIN outputTree.files
          /\ outputTree.files[ReportPath].by.run = runs
          /\ outputTree.files[ReportPath].data.total = migrationReport.total

\* C16: a migrate() called with neither or with both of the source
\* directory and the source project scans and generates nothing: it logs the
\* configuration error, raises nothing and leaves the output tree as it was.
C16_ExactlyOneSourceAccepted ==
    [][(caller' = "migrate" /\ runs' = runs + 1 /\ ~ExactlyOneSource) =>
          /\ mpc' = "done"
          /\ functions' = <<>>
          /\ outputTree' = outputTree
          /\ migrationReport' =
                Log(migrationReport,
                    <<"Either --source or --firebase-project must be specified">>, "error")]_vars

----------------------------------------------------------------------------
(* Properties of the Function Scanner *)

\* the function declarations of a source text: its export statements
DeclaredIn(text) == Cardinality({i \in 1..Len(text) : text[i] \in {"exports.", "export const "}})

\* the handler bodies above the threshold, braces included
Substantial == {st \in Statements : Length(st) + 2 > MinBodyLength}

\* a direct-call HTTP function next to a factory-style callable function of
\* another name, both with a body above the threshold
HttpAndCallable ==
    {Direct(p[1], <<"functions.https.onRequest">>, st) \o ByFactory(p[2], "createCallableFunction", arg, su) :
        p \in {<<"f", "g">>, <<"g", "f">>}, arg \in {"functionName"} \cup Quoted,
        st \in Substantial, su \in Substantial}

\* C18: parseCloudFunctions returns one record per function declaration,
\* never more: two records, of types https and callable, for a direct-call
\* HTTP function next to a factory-style callable function.
C18_OneRecordPerDeclaration ==
    called = "parseCloudFunctions" =>
        /\ Len(parsed) <= DeclaredIn(content)
        /\ content \in HttpAndCallable =>
              /\ Len(parsed) = 2
              /\ {parsed[k].type : k \in 1..Len(parsed)} = {"https", "callable"}

\* the handler bodies at or below the threshold, braces included
Short == {st \in Statements : Length(st) + 2 <= MinBodyLength}

\* a source text whose only declaration has a body at or below the threshold
OnlyShort ==
    {Direct(n, <<t>>, st) :
        n \in Names, t \in {"functions.https.onRequest", "functions.https.onCall"}, st \in Short}

\* C19: every record parseCloudFunctions returns has a body of more than 10
\* characters, and a match whose body has 10 characters or fewer gives no
\* record: a source whose only match has a three-character body gives none.
C19_BodiesAboveThreshold ==
    called = "parseCloudFunctions" =>
        /\ \A k \in 1..Len(parsed) :
              parsed[k].body # <<>> /\ Length(parsed[k].body) > MinBodyLength
        /\ content \in OnlyShort => parsed = <<>>

\* the only match has the body {x} and no record is returned
C19_Witness ==
    /\ called = "parseCloudFunctions"
    /\ content = TooShort
    /\ ExtractFunctionBody(content, 0) = <<"{", "x", "}">>
    /\ parsed = <<>>

\* number of tokens c among the first n of a text
Occurrences(text, c, n) == Cardinality({i \in 1..n : text[i] = c})

\* C20: what extractFunctionBody returns is empty, or starts with '{', ends
\* with the '}' that matches it and has as many '{' as '}'.
C20_BalancedBody ==
    called = "extractFunctionBody" =>
        \/ body = <<>>
        \/ /\ body[1] = "{" /\ body[Len(body)] = "}"
           /\ Occurrences(body, "{", Len(body)) = Occurrences(body, "}", Len(body))
           /\ \A n \in 1..(Len(body) - 1) : Occurrences(body, "{", n) > Occurrences(body, "}", n)

----------------------------------------------------------------------------
(* Properties of the Function Migrator: remote-project mode and directory mode *)

\* migrate() was called with --firebase-project only
RemoteMode == caller = "migrate" /\ ~Truthy(sourceDir) /\ Truthy(firebaseProject)

\* C25: in remote-project mode every function recovered from the inventory
\* is turned into a written handler and reported as migrated, also when its
\* source could not be fetched: no such record fails for lacking a body.
C25_InventoryRecordsMigrated ==
    RemoteMode =>
        /\ \A k \in 1..Len(thrown) : thrown[k].message # "TypeError"
        /\ \A k \in 1..Len(migrationSummary) :
              migrationSummary[k].status = "failed" => migrationSummary[k].error = "EIO"
        /\ (mpc = "done" /\ fsFaults = 0) =>
              /\ Len(migrationSummary) = Len(functions)
              /\ \A k \in 1..Len(functions) :
                    /\ migrationSummary[k].status = "migrated"
                    /\ <<functions[k].name, "index.ts">> \in DOMAIN outputTree.files

\* the records of the readable files of a directory, in scan order
RECURSIVE ReadableRecords(_, _)
ReadableRecords(files, k) ==
    IF k > Len(files) THEN <<>>
    ELSE (IF files[k].readable THEN ParseCloudFunctions(files[k].content, files[k].name) ELSE <<>>)
         \o ReadableRecords(files, k + 1)

\* C26: in directory mode a candidate file that cannot be read contributes
\* no record and does not stop the scan: the records of every other
\* candidate file, before and after it, are still returned.
C26_UnreadableFileIsSkipped ==
    [][(caller' = "migrate" /\ runs' = runs + 1 /\ Truthy(sourceDir)) =>
          LET expected == ReadableRecords(sourceFiles, 1)
          IN  /\ migrationReport'.total = Len(expected)
              /\ expected # <<>> => functions' = expected]_vars

\* record number k of the list is one that generateEdgeFunction renders
Rendered(k) == GenerateEdgeFunction(migrationReport, functions[k]).result = "code"

\* the processed records with the name of record k that were rendered
SameName(k) == {j \in 1..idx : functions[j].name = functions[k].name /\ Rendered(j)}

Last(S) == CHOOSE j \in S : \A i \in S : i <= j

\* C28: when several records of one run share a name, the collision raises
\* no error, and the output directory of that name holds the handler
\* generated from the last such record in processing order.
C28_LastWriteWins ==
    (mpc \in {"loop", "done"} /\ fsFaults = 0) =>
        /\ \A k \in 1..Len(thrown) : ~Rendered(thrown[k].rec)
        /\ \A k \in 1..idx :
              Rendered(k) =>
                 LET path == <<functions[k].name, "index.ts">>
                     last == Last(SameName(k))
                 IN  /\ path \in DOMAIN outputTree.files
                     /\ outputTree.files[path].by = [run |-> runs, rec |-> last]
                     /\ outputTree.files[path].data =
                           <<"index.ts", functions[last].type, functions[last].name>>

\* two records named alike were both written, the second over the first
C28_Witness ==
    /\ mpc = "done" /\ fsFaults = 0 /\ Len(functions) = 2
    /\ functions[1].name = functions[2].name
    /\ Rendered(1) /\ Rendered(2)
    /\ Len(migrationSummary) = 2
    /\ migrationSummary[1].status = "migrated" /\ migrationSummary[2].status = "migrated"
    /\ outputTree.files[<<functions[1].name, "index.ts">>].by.rec = 2

----------------------------------------------------------------------------
(* Properties of the exporter: failed root fetch, order of nested writes *)

RootFetch == <<<<>>, 0>>

\* C29: when a root batch fetch raises, the export does not end as a normal
\* completion: the error is logged or propagated before any final
\* "records written" summary is emitted.
C29_FailedFetchIsVisible ==
    [][(RootFetch \in raised' /\ RootFetch \notin raised) =>
          \/ errorLog' > errorLog
          \/ summary' = summary]_vars

\* the walks in flight that were started below root document d
PendingBelow(d) == {t \in BagToSet(pending) : t.docRef[1] = d[1]}

\* the root documents whose own record is written
RootsWritten == {e.src : e \in {x \in BagToSet(written) : x.table = Root}}

\* C27: with maxDepth >= 2 every subcollection walk started for a document
\* has completed before the walk that started it goes on: no record is
\* written after cleanUp, no walk is in flight once the export is done, and
\* every walk below a root document is over before that document's own
\* record is written.
C27_WalksAwaited ==
    (includeSubcollections /\ maxDepth >= 2) =>
        /\ ~lateWrite
        /\ pc = "done" => pending = EmptyBag
        /\ \A d \in RootsWritten : PendingBelow(d) = {}

----------------------------------------------------------------------------
(* The API rewriter: convertFirebaseToSupabase *)

MaxBody == 2    \* tokens of a body passed to the rewriter

\* The replace calls in the order of the code: each maps the tokens its
\* pattern matches to what replaces them; the captures of the patterns with
\* a group are listed per token.
Rules ==
    << "admin.firestore()" :> <<"supabaseClient">>,
       "admin.auth()" :> <<"supabaseClient.auth.admin">>,
       "admin.storage()" :> <<"supabaseClient.storage">>,
       (".collection('users')" :> <<".from('users')">>)
           @@ (".collection(\"users\")" :> <<".from('users')">>),
       ".doc('u1')" :> <<".select().eq('id', 'u1').single()">>,
       ".get()" :> <<>>,
       ".data()" :> <<>>,
       ".set(" :> <<".insert(">>,
       ".update(" :> <<".update(">>,
       ".delete()" :> <<".delete()">>,
       "user.uid" :> <<"user.id">>,
       "context.auth.uid" :> <<"user.id">>,
       "admin.firestore.FieldValue.serverTimestamp()" :> <<"new Date().toISOString()">>,
       "res.json(" :> <<"return new Response(JSON.stringify(">>,
       "res.status(200).send(" :> <<"return new Response(200, ">>,
       "res.send(" :> <<"return new Response(">> >>

\* the calls of the two SDKs that no pattern matches
Unconverted == {"admin.messaging()", "functions.config()"}

\* the tokens of a body: what the patterns match, near misses of the
\* patterns with a quoted argument, unconverted calls and other text
BodyWords ==
    UNION {DOMAIN Rules[k] : k \in DOMAIN Rules}
    \cup {".collection(name)", ".doc(id)", ".createUser("}
    \cup Unconverted \cup {"x", ")"}

AdminMarker == "// TODO: Review Firebase Admin SDK usage\n    "

FunctionsMarker == "// TODO: Review Firebase Functions usage\n    "

\* the tokens in which `part` occurs
Holding(part) ==
    CASE part = "admin." ->
            {"admin.firestore()", "admin.auth()", "admin.storage()", "admin.messaging()",
             "admin.firestore.FieldValue.serverTimestamp()"}
      [] part = "functions." -> {"functions.config()"}

\* the tokens that end with `part` less its last character, the full stop
EndingBefore(part) ==
    CASE part = "admin." -> {"supabaseClient.auth.admin"}
      [] part = "functions." -> {}

\* the tokens that start with a full stop
StartingWithStop ==
    {".collection('users')", ".collection(\"users\")", ".collection(name)", ".from('users')",
     ".doc('u1')", ".doc(id)", ".select().eq('id', 'u1').single()", ".get()", ".data()",
     ".set(", ".insert(", ".update(", ".delete()", ".createUser("}

\* String.prototype.includes on the concatenation of the tokens: inside one
\* token, or across the border of two
TextIncludes(text, part) ==
    \/ \E k \in 1..Len(text) : text[k] \in Holding(part)
    \/ \E k \in 1..(Len(text) - 1) :
          text[k] \in EndingBefore(part) /\ text[k + 1] \in StartingWithStop

\* one replace(pattern, replacement) with the g flag
RECURSIVE ApplyRule(_, _)
ApplyRule(rule, text) ==
    IF text = <<>> THEN <<>>
    ELSE (IF Head(text) \in DOMAIN rule THEN rule[Head(text)] ELSE <<Head(text)>>)
         \o ApplyRule(rule, Tail(text))

\* the replace calls from number k on
RECURSIVE ApplyRules(_, _)
ApplyRules(text, k) ==
    IF k > Len(Rules) THEN text ELSE ApplyRules(ApplyRule(Rules[k], text), k + 1)

\* a text that is never marked
MarkedNever(text, part, marker) == text

\* if (converted.includes(part)) converted = marker + converted
Marked(text, part, marker) ==
    IF TextIncludes(text, part) THEN <<marker>> \o text ELSE text

\* convertFirebaseToSupabase(code): the first replace is called on code
\* itself and raises a TypeError when code is undefined
ConvertFirebaseToSupabase(arg) ==
    IF ~arg.defined THEN [state |-> "TypeError", text |-> <<>>]
    ELSE [state |-> "returned",
          text |-> Marked(Marked(ApplyRules(arg.text, 1), "admin.", AdminMarker),
                          "functions.", FunctionsMarker)]

\* the bodies of at most n tokens
Bodies(n) == UNION {[1..k -> BodyWords] : k \in 0..n}

\* func.body as the templates pass it on: undefined for a record of
\* parseFunctionsFromFirebase, a text otherwise
Arguments ==
    {[defined |-> FALSE, text |-> <<>>]} \cup {[defined |-> TRUE, text |-> t] : t \in Bodies(MaxBody)}

RewriterInit ==
    /\ code \in Arguments
    /\ converted = [state |-> "none", text |-> <<>>]
    /\ HandlerIdle
    /\ content = <<>> /\ startIndex = 0
    /\ called = "none" /\ body = <<>> /\ parsed = <<>>
    /\ ExporterIdle
    /\ MigratorIdle

CallConvertFirebaseToSupabase ==
    /\ converted.state = "none"
    /\ converted' = ConvertFirebaseToSupabase(code)
    /\ UNCHANGED <<code, template, env, request, response, steps>>
    /\ UNCHANGED <<exporterVars, migratorVars, scannerVars>>

RewriterNext == CallConvertFirebaseToSupabase

RewriterSpec == RewriterInit /\ [][RewriterNext]_vars

----------------------------------------------------------------------------
(* Properties of the rewriter *)

\* C21: convertFirebaseToSupabase terminates and returns a string, without
\* raising, for every body the generator can pass to it, the empty string
\* and a text that matches no rule included.
C21_RewriterTotal ==
    converted.state \in {"none", "returned"}

\* the tokens of a text that are in S, in order
RECURSIVE Only(_, _)
Only(text, S) ==
    IF text = <<>> THEN <<>>
    ELSE (IF Head(text) \in S THEN <<Head(text)>> ELSE <<>>) \o Only(Tail(text), S)

Markers == {AdminMarker, FunctionsMarker}

\* the tokens no pattern matches
Untouched == BodyWords \ UNION {DOMAIN Rules[k] : k \in DOMAIN Rules}

\* the marker that reports a call
MarkerOf(call) == IF call \in Holding("admin.") THEN AdminMarker ELSE FunctionsMarker

\* C22: for a body that holds an admin. or functions. call no rule
\* converts, the output begins with a review marker, holds the marker of
\* that call in front of the body and still holds the call verbatim; the
\* markers remove or alter nothing of the body text.
C22_UnconvertedIsMarked ==
    (converted.state = "returned" /\ \E k \in 1..Len(code.text) : code.text[k] \in Unconverted) =>
        /\ Head(converted.text) \in Markers
        /\ Only(converted.text, Untouched) = Only(code.text, Untouched)
        /\ SelectSeq(converted.text, LAMBDA t : t \notin Markers) = ApplyRules(code.text, 1)
        /\ \A k \in 1..Len(code.text) :
              code.text[k] \in Unconverted =>
                 \E j \in 1..Len(converted.text) :
                    /\ converted.text[j] = code.text[k]
                    /\ \E i \in 1..(j - 1) :
                          /\ converted.text[i] = MarkerOf(code.text[k])
                          /\ \A h \in 1..i : converted.text[h] \in Markers

\* a body with an unconverted admin call next to a converted one
C22_Witness ==
    /\ converted.state = "returned"
    /\ code.text = <<"admin.firestore()", "admin.messaging()">>
    /\ converted.text = <<AdminMarker, "supabaseClient", "admin.messaging()">>

----------------------------------------------------------------------------
(* The generated handlers: the serve callback of each template *)

HttpShaped == {"https", "callable"}

WebhookShaped == {"firestore", "auth", "storage", "pubsub"}

\* the templates that compare the authorization header with a shared
\* secret: SUPABASE_WEBHOOK_SECRET, and CRON_SECRET for the scheduler
SecretGuarded == WebhookShaped \cup {"scheduler"}

\* ${Deno.env.get(name)} inside a template literal: the string "undefined"
\* when the variable is not set
Interpolate(e) == IF e.set THEN e.value ELSE "undefined"

\* `Bearer ${v}`
Bearer(v) == <<"Bearer ", v>>

Environments == {[set |-> FALSE, value |-> ""], [set |-> TRUE, value |-> "s3cret"]}

\* req.headers.get('authorization'): null when the header is absent
Headers ==
    {[present |-> FALSE, value |-> <<>>]}
    \cup {[present |-> TRUE, value |-> Bearer(v)] : v \in {"s3cret", "undefined", "wrong"}}

\* user: getUser(token) yields a user; fails: the statement of the try
\* block that raises
Requests ==
    [method : {"OPTIONS", "POST"}, authorization : Headers, user : BOOLEAN,
     fails : {"none", "req.json()", "body"}]

\* error.message of what a statement raises
MessageOf(stmt) == IF stmt = "req.json()" THEN "Unexpected end of JSON input" ELSE "boom"

\* the statements of a try block in order, up to the first that raises
RECURSIVE Run(_, _, _)
Run(stmts, req, done) ==
    IF stmts = <<>> THEN [steps |-> done, error |-> ""]
    ELSE IF req.fails = Head(stmts)
         THEN [steps |-> done \o <<Head(stmts), "throw">>, error |-> MessageOf(Head(stmts))]
         ELSE Run(Tail(stmts), req, Append(done, Head(stmts)))

\* the templates whose catch block answers with error.message
WithMessage == {"https", "callable", "firestore"}

\* catch (error): console.error, then a 500 response
CatchAll(kind, run) ==
    [status |-> 500,
     body |-> IF kind \in WithMessage THEN <<"error", run.error>> ELSE <<"Internal Server Error">>,
     steps |-> Append(run.steps, "console.error")]

\* the response at the end of the try block
Success(kind) ==
    CASE kind = "https" -> <<"success", "result">>
      [] kind = "callable" -> <<"result">>
      [] kind = "pubsub" -> <<"Message processed">>
      [] kind = "scheduler" -> <<"Scheduled task completed">>
      [] OTHER -> <<"OK">>

\* try { stmts ... return success } catch (error) { ... }
Try(kind, stmts, req, done) ==
    LET run == Run(stmts, req, done)
    IN  IF run.error # "" THEN CatchAll(kind, run)
        ELSE [status |-> 200, body |-> Success(kind), steps |-> run.steps]

\* a guard that only asks for the header to be present
UnauthorizedIfAbsent(e, authHeader) == ~authHeader.present

\* !authHeader || authHeader !== `Bearer ${webhookSecret}`, and for the
\* scheduler cronSecret !== expectedAuth, where null differs from every string
Unauthorized(e, authHeader) ==
    ~authHeader.present \/ authHeader.value # Bearer(Interpolate(e))

\* the statements of the try block in front of the migrated body
Preamble(kind) ==
    IF kind \in WebhookShaped THEN <<"req.json()", "createClient">> ELSE <<"createClient">>

\* the serve callback of the handler rendered for `kind`
Serve(kind, e, req) ==
    IF kind \in HttpShaped /\ req.method = "OPTIONS"
    THEN [status |-> 200, body |-> <<"ok">>, steps |-> <<>>]
    ELSE IF kind = "callable"
    THEN IF ~req.authorization.present
         THEN [status |-> 401, body |-> <<"error", "Missing authorization header">>, steps |-> <<>>]
         ELSE IF ~req.user
         THEN [status |-> 401, body |-> <<"error", "Invalid token">>,
               steps |-> <<"createClient", "getUser">>]
         ELSE Try(kind, <<"req.json()", "body">>, req, <<"createClient", "getUser">>)
    ELSE IF kind \in SecretGuarded /\ Unauthorized(e, req.authorization)
    THEN [status |-> 401, body |-> <<"Unauthorized">>, steps |-> <<>>]
    ELSE Try(kind, Append(Preamble(kind), "body"), req, <<>>)

HandlerInit ==
    /\ template \in Templates
    /\ env \in Environments
    /\ request \in Requests
    /\ response = NoResponse
    /\ steps = <<>>
    /\ RewriterIdle
    /\ content = <<>> /\ startIndex = 0
    /\ called = "none" /\ body = <<>> /\ parsed = <<>>
    /\ ExporterIdle
    /\ MigratorIdle

\* the handler answers the request
HandleRequest ==
    /\ response = NoResponse
    /\ LET r == Serve(template, env, request)
       IN  /\ response' = [status |-> r.status, body |-> r.body]
           /\ steps' = r.steps
    /\ UNCHANGED <<code, converted, template, env, request>>
    /\ UNCHANGED <<exporterVars, migratorVars, scannerVars>>

HandlerNext == HandleRequest

HandlerSpec == HandlerInit /\ [][HandlerNext]_vars

----------------------------------------------------------------------------
(* Properties of the generated handlers *)

Answered == response # NoResponse

Ran(stmt) == \E k \in 1..Len(steps) : steps[k] = stmt

\* C23: for every trigger kind with a template, the catch-all error path of
\* the generated handler logs the error and answers with status 500 and a
\* body that carries the message of the caught error.
C23_CatchAllCarriesMessage ==
    (Answered /\ Ran("throw")) =>
        /\ steps[Len(steps)] = "console.error"
        /\ response.status = 500
        /\ response.body = <<"error", MessageOf(request.fails)>>

\* C24: in the handlers of the webhook-shaped kinds and of the scheduler, a
\* request whose authorization header is absent or differs from "Bearer "
\* followed by the configured secret is answered with 401 before the
\* request body is parsed, the client constructed or a statement of the
\* migrated body run.
C24_RejectedBeforeAnyWork ==
    (Answered /\ template \in SecretGuarded
       /\ (~request.authorization.present
             \/ request.authorization.value # Bearer(Interpolate(env)))) =>
        /\ response = [status |-> 401, body |-> <<"Unauthorized">>]
        /\ steps = <<>>

\* a webhook call with a wrong secret was turned away
C24_Witness ==
    /\ Answered /\ template = "firestore" /\ env.set
    /\ request.authorization = [present |-> TRUE, value |-> Bearer("wrong")]
    /\ request.fails = "body"
    /\ response.status = 401 /\ steps = <<>>

\* C30: when the shared-secret variable is not set, the handler answers
\* every request with 401: no authorization header value, "Bearer undefined"
\* in particular, lets a request reach the migrated body.
C30_UnsetSecretRejectsAll ==
    (Answered /\ template \in SecretGuarded /\ ~env.set) =>
        /\ response.status = 401
        /\ ~Ran("body")

====
